---- MODULE Spec2Model ----
(***************************************************************************)
(* QuadViewer: the remote-control subsystem of src/quadviewer.py.          *)
(*                                                                         *)
(* Spec     the orchestrator (QuadViewerApp) with its worker threads, the  *)
(*          browser processes and the page each debug port serves.         *)
(* SpecCdp  one command call of the protocol client (cdp_send /            *)
(*          cdp_set_window_bounds) against an arbitrary endpoint.          *)
(* SpecLayout  one call of the layout engine.                              *)
(* SpecFrame   one frame sent, returned by the peer and read.              *)
(* SpecInject  one worker thread running the injection schedule.           *)
(***************************************************************************)
EXTENDS Integers, Sequences, FiniteSets, Bags, TLC

(***************************************************************************)
(* Bounds of the model.                                                    *)
(***************************************************************************)
\* number of GUI / hotkey operations in one run of Spec
MaxOps == 3
\* number of GUI / hotkey operations in one run of SpecSeq
MaxSeqOps == 5
\* number of worker threads alive at the same time in Spec
MaxWorkers == 3
\* number of worker threads alive at the same time in SpecSeq
MaxSeqWorkers == 4
\* number of scheduled re-injections of inject_js_thread that Spec follows
MaxResends == 1
\* largest retry budget a command call is given in SpecCdp
MaxRetries == 3

(***************************************************************************)
(* Program constants.                                                      *)
(***************************************************************************)
UL == "Upper Left"
UR == "Upper Right"
LL == "Lower Left"
LR == "Lower Right"

\* QUADRANTS: quad_name -> (col, row)
QUADRANTS == (UL :> <<0, 0>>) @@ (UR :> <<1, 0>>) @@ (LL :> <<0, 1>>) @@ (LR :> <<1, 1>>)

\* iteration order of the QUADRANTS / assignments dictionaries
QUAD_ORDER == <<UL, UR, LL, LR>>

QuadNames == DOMAIN QUADRANTS

CDP_BASE_PORT == 19220

\* mutant: every quadrant is given the same offset
CDP_PORT_OFFSETS_same == [q \in QuadNames |-> 0]

CDP_PORT_OFFSETS == (UL :> 0) @@ (UR :> 1) @@ (LL :> 2) @@ (LR :> 3)

WIN_BORDER == 8

\* the re-injection delays of inject_js_thread
INJECT_DELAYS == <<8, 12, 15, 20>>

\* self.audio_quad = None
None == "None"

\* the rectangle get_work_area() returns (an OS query; one fixed screen here)
get_work_area == <<0, 0, 1920, 1080>>

(***************************************************************************)
(* Layout engine (pure functions).                                         *)
(***************************************************************************)
\* mutant: a window is widened by one border only
get_quadrant_rect_narrow(quad_name, work_x, work_y, work_w, work_h) ==
    LET col == QUADRANTS[quad_name][1]
        row == QUADRANTS[quad_name][2]
        half_w == work_w \div 2
        half_h == work_h \div 2
    IN  << work_x + col * half_w - WIN_BORDER,
           work_y + row * half_h - WIN_BORDER,
           half_w + WIN_BORDER,
           half_h + WIN_BORDER >>

get_quadrant_rect(quad_name, work_x, work_y, work_w, work_h) ==
    LET col == QUADRANTS[quad_name][1]
        row == QUADRANTS[quad_name][2]
        half_w == work_w \div 2
        half_h == work_h \div 2
    IN  << work_x + col * half_w - WIN_BORDER,
           work_y + row * half_h - WIN_BORDER,
           half_w + 2 * WIN_BORDER,
           half_h + 2 * WIN_BORDER >>

\* mutant: the diagonal pair is laid out in the order it is given
SortedByCol_unsorted(names) == names

\* sorted(names, key=col) for a list of two names (Python's sort is stable)
SortedByCol(names) ==
    IF QUADRANTS[names[2]][1] < QUADRANTS[names[1]][1]
    THEN <<names[2], names[1]>>
    ELSE names

\* names: the active quadrants in iteration order (a sequence without repeats)
get_smart_rects(names, work_x, work_y, work_w, work_h) ==
    LET n == Len(names)
        S == {names[i] : i \in 1..n}
    IN  IF n = 1 THEN
            [q \in S |-> << work_x - WIN_BORDER, work_y - WIN_BORDER,
                            work_w + 2 * WIN_BORDER, work_h + 2 * WIN_BORDER >>]
        ELSE IF n = 2 THEN
            IF QUADRANTS[names[1]][2] = QUADRANTS[names[2]][2] THEN
                [q \in S |-> << work_x + QUADRANTS[q][1] * (work_w \div 2) - WIN_BORDER,
                                work_y - WIN_BORDER,
                                work_w \div 2 + 2 * WIN_BORDER,
                                work_h + 2 * WIN_BORDER >>]
            ELSE IF QUADRANTS[names[1]][1] = QUADRANTS[names[2]][1] THEN
                [q \in S |-> << work_x - WIN_BORDER,
                                work_y + QUADRANTS[q][2] * (work_h \div 2) - WIN_BORDER,
                                work_w + 2 * WIN_BORDER,
                                work_h \div 2 + 2 * WIN_BORDER >>]
            ELSE
                LET sorted_names == SortedByCol(names)
                    idx(q) == IF sorted_names[1] = q THEN 0 ELSE 1
                IN  [q \in S |-> << work_x + idx(q) * (work_w \div 2) - WIN_BORDER,
                                    work_y - WIN_BORDER,
                                    work_w \div 2 + 2 * WIN_BORDER,
                                    work_h + 2 * WIN_BORDER >>]
        ELSE
            [q \in S |-> get_quadrant_rect(q, work_x, work_y, work_w, work_h)]

\* mutant: the maximized window is given the bare work area
MaximizedRect_bare == get_work_area

\* the rect _toggle_maximize resizes to: the full work area plus the border
MaximizedRect ==
    << get_work_area[1] - WIN_BORDER, get_work_area[2] - WIN_BORDER,
       get_work_area[3] + 2 * WIN_BORDER, get_work_area[4] + 2 * WIN_BORDER >>

(***************************************************************************)
(* State.                                                                  *)
(***************************************************************************)
VARIABLES
    assignments,     \* self.assignments: quad -> "None" | "url" | "nourl"
    processes,       \* self.processes: the Popen objects, as [pid, quad]
    active_ports,    \* self.active_ports: quad -> debug port (partial)
    active_pids,     \* self.active_pids: quad -> pid (partial)
    audio_quad,      \* self.audio_quad
    quad_rects,      \* self._quad_rects: quad -> (x, y, w, h) (partial)
    quad_maximized,  \* self._quad_maximized: quad -> bool (partial)
    alive,           \* the browser processes the OS is running, as [pid, quad]
    page,            \* port -> the page of the process listening on it (partial)
    workers,         \* bag of the running worker threads
    opCount,         \* operations invoked so far
    limit,           \* [ops, workers]: the bounds of the run
    lastAudio,       \* quad -> last audio command issued to its session (partial)
    soloReq,         \* the region of the last operation if it was setSolo, else None
    cdp,             \* SpecCdp: the command call in progress
    layout,          \* SpecLayout: one call of get_smart_rects
    frame,           \* SpecFrame: one frame sent by _ws_send_text and read by _ws_recv
    thread           \* SpecInject: one thread running inject_js_thread or do_switch

orchVars == <<assignments, processes, active_ports, active_pids, audio_quad,
              quad_rects, quad_maximized>>
envVars == <<alive, page>>
ghostVars == <<opCount, limit, lastAudio, soloReq>>
pureVars == <<layout, frame, thread>>
vars == <<assignments, processes, active_ports, active_pids, audio_quad,
          quad_rects, quad_maximized, alive, page, workers,
          opCount, limit, lastAudio, soloReq, cdp, layout, frame, thread>>

(***************************************************************************)
(* Partial functions (Python dictionaries).                                *)
(***************************************************************************)
EmptyDict == [x \in {} |-> 0]

Has(d, k) == k \in DOMAIN d

Pop(d, k) == [x \in (DOMAIN d) \ {k} |-> d[x]]

Put(d, k, v) == [x \in (DOMAIN d) \cup {k} |-> IF x = k THEN v ELSE d[x]]

\* d.get(k, False) of a quad -> bool dictionary
GetFlag(d, k) == IF Has(d, k) THEN d[k] ELSE FALSE

PortOf(q) == CDP_BASE_PORT + CDP_PORT_OFFSETS[q]

\* the quadrants of a set, as the sequence a dictionary iterates them
RECURSIVE InOrder(_, _)
InOrder(order, S) ==
    IF order = <<>> THEN <<>>
    ELSE IF Head(order) \in S THEN <<Head(order)>> \o InOrder(Tail(order), S)
    ELSE InOrder(Tail(order), S)

(***************************************************************************)
(* Processes, ports and pages (the environment of the program).            *)
(*                                                                         *)
(* A process is [pid, quad].  A debug port is served by at most one        *)
(* process: the one that bound it first keeps it until it dies.  The page  *)
(* of a port is [pid, muted, injected, rect]: the process serving it,      *)
(* whether its media elements are muted, whether the automation script is  *)
(* installed (window.__qv_injected), and the window rectangle.             *)
(***************************************************************************)
Proc(pid, q) == [pid |-> pid, quad |-> q]

\* a new page plays with sound, has no script yet and sits where
\* --window-position / --window-size put it
NewPage(pid, rect) == [pid |-> pid, muted |-> FALSE, injected |-> FALSE, rect |-> rect]

\* the pages after processes ps were started with the rects rs (quad -> rect)
PagesAfterLaunch(pg, ps, rs) ==
    LET new == {PortOf(p.quad) : p \in ps} \ DOMAIN pg
        procAt(port) == CHOOSE p \in ps : PortOf(p.quad) = port
    IN  [port \in (DOMAIN pg) \cup new |->
            IF port \in DOMAIN pg THEN pg[port]
            ELSE NewPage(procAt(port).pid, rs[procAt(port).quad])]

\* the pages after the processes with pids in dead have exited
PagesAfterExit(pg, dead) ==
    [port \in {x \in DOMAIN pg : pg[x].pid \notin dead} |-> pg[port]]

(***************************************************************************)
(* Worker threads.                                                         *)
(*   kind    inject   inject_js_thread                                     *)
(*           switch   do_switch of _switch_quadrant                        *)
(*           audio    _do_audio_switch, and cdp_evaluate of _mute_all      *)
(*           resize   _do_resize, _do_resize_and_front                     *)
(*           close    do_close of _close_quadrant                          *)
(*           initmute _initial_mute                                        *)
(*   port    the debug port the thread was given                           *)
(*   pid     the process the thread was started for (0 if none)            *)
(*   pc      its position                                                  *)
(*   muted   start_muted of inject_js_thread                               *)
(*   js      "mute" | "unmute" | "-": the audio script it carries          *)
(*   rect    the rectangle of a resize, else <<>>                          *)
(*   n, done _initial_mute: the size of active_ports when its loop began   *)
(*           and the quadrants it has handled                              *)
(***************************************************************************)
Worker(kind, port, pid, pc, muted, js, rect) ==
    [kind |-> kind, port |-> port, pid |-> pid, pc |-> pc, muted |-> muted,
     js |-> js, rect |-> rect, n |-> 0, done |-> {}]

InjectWorker(port, pid, start_muted) == Worker("inject", port, pid, 0, start_muted, "mute", <<>>)

SwitchWorker(port, pid, start_muted) == Worker("switch", port, pid, 0, start_muted, "mute", <<>>)

AudioWorker(port, pid, js) == Worker("audio", port, pid, 0, FALSE, js, <<>>)

ResizeWorker(port, pid, rect) == Worker("resize", port, pid, 0, FALSE, "-", rect)

CloseWorker(proc) == Worker("close", PortOf(proc.quad), proc.pid, 0, FALSE, "-", <<>>)

InitMuteWorker == Worker("initmute", 0, 0, 0, FALSE, "-", <<>>)

WorkerSet == BagToSet(workers)

\* pids that still name a process somewhere: a new process gets another one
UsedPids(al, ws) == {p.pid : p \in al} \cup {w.pid : w \in BagToSet(ws)}

RECURSIVE FreshPids(_, _)
\* the k smallest pids not in used, in ascending order
FreshPids(k, used) ==
    IF k = 0 THEN <<>>
    ELSE LET p == CHOOSE x \in 1..(Cardinality(used) + 1) : x \notin used /\
                     \A y \in 1..(Cardinality(used) + 1) : y \notin used => x <= y
         IN  <<p>> \o FreshPids(k - 1, used \cup {p})

\* threads started by one operation join the running ones
Spawn(ws, new) == ws (+) SetToBag(new)

(***************************************************************************)
(* Orchestrator operations (QuadViewerApp methods run by the GUI thread).  *)
(***************************************************************************)
\* the bookkeeping every invoked operation does in the model
Invoked(solo) ==
    /\ opCount < limit.ops
    /\ opCount' = opCount + 1
    /\ limit' = limit
    /\ soloReq' = solo

\* mutant: an operation that returns early drops the solo reference first
EarlyReturn_unsolo ==
    /\ Invoked(None)
    /\ audio_quad' = None
    /\ UNCHANGED <<assignments, processes, active_ports, active_pids, quad_rects,
                   quad_maximized, envVars, workers, lastAudio, cdp, pureVars>>

\* an operation that returned early: nothing of the program changes
EarlyReturn ==
    /\ Invoked(None)
    /\ UNCHANGED <<orchVars, envVars, workers, lastAudio, cdp, pureVars>>

\* the audio command a launch with start_muted = muted amounts to
LaunchAudio(muted) == IF muted THEN "mute" ELSE "unmute"

_switch_quadrant(quad_name) ==
    IF ~Has(active_ports, quad_name) \/ assignments[quad_name] # "url"
    THEN EarlyReturn
    ELSE LET start_muted == quad_name # audio_quad
         IN  /\ Invoked(None)
             /\ workers' = Spawn(workers, {SwitchWorker(active_ports[quad_name],
                                               active_pids[quad_name], start_muted)})
             /\ BagCardinality(workers') <= limit.workers
             /\ lastAudio' = IF start_muted THEN Put(lastAudio, quad_name, "mute")
                             ELSE lastAudio
             /\ UNCHANGED <<orchVars, envVars, cdp, pureVars>>

\* mutant: closing a quadrant forgets to drop its maximized flag
ClosedFlags_kept(quad_name) == quad_maximized

\* self._quad_maximized.pop(quad_name, None)
ClosedFlags(quad_name) == Pop(quad_maximized, quad_name)

_close_quadrant(quad_name) ==
    IF ~Has(active_pids, quad_name)
    THEN EarlyReturn
    ELSE LET pid == active_pids[quad_name]
             found == {proc \in processes : proc.pid = pid}
         IN  /\ Invoked(None)
             /\ workers' = Spawn(workers, {CloseWorker(proc) : proc \in found})
             /\ BagCardinality(workers') <= limit.workers
             /\ processes' = processes \ found
             /\ active_ports' = Pop(active_ports, quad_name)
             /\ active_pids' = Pop(active_pids, quad_name)
             /\ quad_rects' = Pop(quad_rects, quad_name)
             /\ quad_maximized' = ClosedFlags(quad_name)
             /\ lastAudio' = Pop(lastAudio, quad_name)
             /\ UNCHANGED <<assignments, audio_quad, envVars, cdp, pureVars>>

\* mutant: opening a quadrant lays out every stored quadrant again
StoredOnOpen_relayout(quad_name, rect) ==
    [q \in (DOMAIN quad_rects) \cup {quad_name} |->
        get_quadrant_rect(q, get_work_area[1], get_work_area[2],
                          get_work_area[3], get_work_area[4])]

\* self._quad_rects[quad_name] = (x, y, w, h)
StoredOnOpen(quad_name, rect) == Put(quad_rects, quad_name, rect)

_open_quadrant(quad_name) ==
    IF Has(active_ports, quad_name) \/ assignments[quad_name] # "url"
    THEN EarlyReturn
    ELSE LET wa == get_work_area
             rect == get_quadrant_rect(quad_name, wa[1], wa[2], wa[3], wa[4])
             debug_port == CDP_BASE_PORT + CDP_PORT_OFFSETS[quad_name]
             proc == Proc(FreshPids(1, UsedPids(alive, workers))[1], quad_name)
             muted == quad_name # audio_quad
         IN  /\ Invoked(None)
             /\ quad_rects' = StoredOnOpen(quad_name, rect)
             /\ active_ports' = Put(active_ports, quad_name, debug_port)
             /\ processes' = processes \cup {proc}
             /\ active_pids' = Put(active_pids, quad_name, proc.pid)
             /\ quad_maximized' = Put(quad_maximized, quad_name, FALSE)
             /\ alive' = alive \cup {proc}
             /\ page' = PagesAfterLaunch(page, {proc}, quad_rects')
             /\ workers' = Spawn(workers, {InjectWorker(debug_port, proc.pid, muted)})
             /\ BagCardinality(workers') <= limit.workers
             /\ lastAudio' = Put(lastAudio, quad_name, LaunchAudio(muted))
             /\ UNCHANGED <<assignments, audio_quad, cdp, pureVars>>

\* the threads _set_audio_solo starts: unmute for quad_name, mute for the others
SoloWorkers(quad_name) ==
    {AudioWorker(active_ports[q], active_pids[q],
                 IF q = quad_name THEN "unmute" ELSE "mute") : q \in DOMAIN active_ports}

SoloAudio(quad_name) ==
    [q \in DOMAIN active_ports |-> IF q = quad_name THEN "unmute" ELSE "mute"]

_set_audio_solo(quad_name) ==
    IF ~Has(active_ports, quad_name)
    THEN EarlyReturn
    ELSE /\ Invoked(quad_name)
         /\ audio_quad' = quad_name
         /\ workers' = Spawn(workers, SoloWorkers(quad_name))
         /\ BagCardinality(workers') <= limit.workers
         /\ lastAudio' = SoloAudio(quad_name)
         /\ UNCHANGED <<assignments, processes, active_ports, active_pids,
                        quad_rects, quad_maximized, envVars, cdp, pureVars>>

_mute_all ==
    IF DOMAIN active_ports = {}
    THEN EarlyReturn
    ELSE /\ Invoked(None)
         /\ audio_quad' = None
         /\ workers' = Spawn(workers, {AudioWorker(active_ports[q], active_pids[q], "mute") :
                                          q \in DOMAIN active_ports})
         /\ BagCardinality(workers') <= limit.workers
         /\ lastAudio' = [q \in DOMAIN active_ports |-> "mute"]
         /\ UNCHANGED <<assignments, processes, active_ports, active_pids,
                        quad_rects, quad_maximized, envVars, cdp, pureVars>>

\* mutant: a restore resizes to the maximized rect again
RestoreWorkers_maximized(qs) ==
    {ResizeWorker(active_ports[q], active_pids[q], MaximizedRect) :
        q \in {r \in qs : Has(active_ports, r) /\ Has(quad_rects, r)}}

\* _restore_quad for each quadrant of qs: the resize threads it starts ...
RestoreWorkers(qs) ==
    {ResizeWorker(active_ports[q], active_pids[q], quad_rects[q]) :
        q \in {r \in qs : Has(active_ports, r) /\ Has(quad_rects, r)}}

\* ... and the flags it leaves
RestoreFlags(flags, qs) ==
    [q \in (DOMAIN flags) \cup qs |-> IF q \in qs THEN FALSE ELSE flags[q]]

\* mutant: maximizing does not look for another maximized quadrant
OthersMaximized_none(quad_name) == {}

\* the other quadrants _toggle_maximize restores before it maximizes quad_name
OthersMaximized(quad_name) ==
    {q \in QuadNames : q # quad_name /\ GetFlag(quad_maximized, q)}

_toggle_maximize(quad_name) ==
    IF ~Has(active_ports, quad_name)
    THEN EarlyReturn
    ELSE IF GetFlag(quad_maximized, quad_name)
    THEN /\ Invoked(None)
         /\ workers' = Spawn(workers, RestoreWorkers({quad_name}))
         /\ BagCardinality(workers') <= limit.workers
         /\ quad_maximized' = RestoreFlags(quad_maximized, {quad_name})
         /\ UNCHANGED <<assignments, processes, active_ports, active_pids, audio_quad,
                        quad_rects, envVars, lastAudio, cdp, pureVars>>
    ELSE LET others == OthersMaximized(quad_name)
         IN  /\ Invoked(None)
             /\ workers' = Spawn(Spawn(Spawn(workers, RestoreWorkers(others)),
                                   {ResizeWorker(active_ports[quad_name],
                                                 active_pids[quad_name], MaximizedRect)}),
                                 SoloWorkers(quad_name))
             /\ BagCardinality(workers') <= limit.workers
             /\ quad_maximized' = Put(RestoreFlags(quad_maximized, others), quad_name, TRUE)
             /\ audio_quad' = quad_name
             /\ lastAudio' = SoloAudio(quad_name)
             /\ UNCHANGED <<assignments, processes, active_ports, active_pids,
                            quad_rects, envVars, cdp, pureVars>>

\* its thread calls bring_os_window_to_front(pid): the z-order of the OS
\* windows, which is no part of the state here
_bring_quad_to_front(quad_name) ==
    IF ~Has(active_pids, quad_name)
    THEN EarlyReturn
    ELSE /\ Invoked(None)
         /\ UNCHANGED <<orchVars, envVars, workers, lastAudio, cdp, pureVars>>

_close_all ==
    /\ Invoked(None)
    /\ alive' = alive \ processes
    /\ page' = PagesAfterExit(page, {proc.pid : proc \in processes})
    /\ processes' = {}
    /\ active_ports' = EmptyDict
    /\ active_pids' = EmptyDict
    /\ lastAudio' = EmptyDict
    /\ UNCHANGED <<assignments, audio_quad, quad_rects, quad_maximized, workers, cdp, pureVars>>

\* mutant: _execute lays out all four quadrants
ExecuteActive_all == QuadNames

\* the quadrants _execute lays out: every assigned one
ExecuteActive == {q \in QuadNames : assignments[q] # None}

\* the quadrants _execute launches: the assigned ones whose channel has a URL
ExecuteLaunched == {q \in ExecuteActive : assignments[q] = "url"}

\* the audio flag _execute launches quad_name with
ExecuteMuted(quad_name) == quad_name # UL

_execute ==
    IF ExecuteActive = {}
    THEN EarlyReturn
    ELSE LET wa == get_work_area
             rects == get_smart_rects(InOrder(QUAD_ORDER, ExecuteActive),
                                      wa[1], wa[2], wa[3], wa[4])
             launch == InOrder(QUAD_ORDER, ExecuteLaunched)
             survivors == alive \ processes
             pids == FreshPids(Len(launch), UsedPids(survivors, workers))
             procs == {Proc(pids[i], launch[i]) : i \in 1..Len(launch)}
             pidOf(q) == (CHOOSE proc \in procs : proc.quad = q).pid
         IN  /\ Invoked(None)
             /\ quad_rects' = [q \in ExecuteLaunched |-> rects[q]]
             /\ quad_maximized' = EmptyDict
             /\ active_ports' = [q \in ExecuteLaunched |->
                                    CDP_BASE_PORT + CDP_PORT_OFFSETS[q]]
             /\ active_pids' = [q \in ExecuteLaunched |-> pidOf(q)]
             /\ processes' = procs
             /\ alive' = survivors \cup procs
             /\ page' = PagesAfterLaunch(
                            PagesAfterExit(page, {proc.pid : proc \in processes}),
                            procs, quad_rects')
             /\ workers' = Spawn(Spawn(workers,
                                   {InjectWorker(PortOf(q), pidOf(q), ExecuteMuted(q)) :
                                       q \in ExecuteLaunched}),
                                 IF ExecuteLaunched # {} THEN {InitMuteWorker} ELSE {})
             /\ BagCardinality(workers') <= limit.workers
             /\ lastAudio' = [q \in ExecuteLaunched |-> LaunchAudio(ExecuteMuted(q))]
             /\ UNCHANGED <<assignments, audio_quad, cdp, pureVars>>

(***************************************************************************)
(* Worker thread steps.  A command call (its retries included, SpecCdp) is  *)
(* one step here: it reaches the page of the process listening on the      *)
(* thread's port, and with no listener it exhausts its retries and changes *)
(* nothing.  No caller looks at the result of a command call.              *)
(***************************************************************************)
\* thread w moves on as the threads of next (none when it has finished)
Continue(w, next) == (workers (-) SetToBag({w})) (+) SetToBag(next)

Delivered(w) == Has(page, w.port)

\* the re-injection delays Spec follows a thread through
Schedule == SubSeq(INJECT_DELAYS, 1, IF MaxResends < Len(INJECT_DELAYS)
                                     THEN MaxResends ELSE Len(INJECT_DELAYS))

\* position of the last command of inject_js_thread
InjectLastPc == 2 * Len(Schedule) + 1

\* inject_js_thread at pc: the thread after its command at pc (even pc:
\* INJECTED_JS of send pc / 2, odd pc: the mute script of that send)
InjectNext(w) ==
    LET pc == IF w.pc % 2 = 0 /\ ~w.muted THEN w.pc + 2 ELSE w.pc + 1
    IN  IF pc > InjectLastPc THEN {} ELSE {[w EXCEPT !.pc = pc]}

\* cdp_evaluate(port, INJECTED_JS)
InjectSend(w) ==
    /\ w.kind = "inject" /\ w.pc % 2 = 0
    /\ page' = IF Delivered(w) THEN [page EXCEPT ![w.port].injected = TRUE] ELSE page
    /\ workers' = Continue(w, InjectNext(w))
    /\ UNCHANGED <<orchVars, alive, opCount, limit, lastAudio, soloReq, cdp, pureVars>>

\* cdp_evaluate(port, mute_js) of a thread started with start_muted
InjectMute(w) ==
    /\ w.kind = "inject" /\ w.pc % 2 = 1
    /\ page' = IF Delivered(w) THEN [page EXCEPT ![w.port].muted = TRUE] ELSE page
    /\ workers' = Continue(w, InjectNext(w))
    /\ UNCHANGED <<orchVars, alive, opCount, limit, lastAudio, soloReq, cdp, pureVars>>

\* do_switch: cdp_navigate(port, url), then inject_js_thread in the same thread;
\* the document navigated to has no script installed
SwitchNavigate(w) ==
    /\ w.kind = "switch"
    /\ page' = IF Delivered(w) THEN [page EXCEPT ![w.port].injected = FALSE] ELSE page
    /\ workers' = Continue(w, {[w EXCEPT !.kind = "inject", !.pc = 0]})
    /\ UNCHANGED <<orchVars, alive, opCount, limit, lastAudio, soloReq, cdp, pureVars>>

\* _do_audio_switch: cdp_evaluate(port, js)
AudioSwitch(w) ==
    /\ w.kind = "audio"
    /\ page' = IF Delivered(w) THEN [page EXCEPT ![w.port].muted = (w.js = "mute")] ELSE page
    /\ workers' = Continue(w, {})
    /\ UNCHANGED <<orchVars, alive, opCount, limit, lastAudio, soloReq, cdp, pureVars>>

\* _do_resize / _do_resize_and_front: cdp_set_window_bounds(port, x, y, w, h)
DoResize(w) ==
    /\ w.kind = "resize"
    /\ page' = IF Delivered(w) THEN [page EXCEPT ![w.port].rect = w.rect] ELSE page
    /\ workers' = Continue(w, {})
    /\ UNCHANGED <<orchVars, alive, opCount, limit, lastAudio, soloReq, cdp, pureVars>>

\* do_close: taskkill, wait, kill: the process is gone when the thread ends
DoClose(w) ==
    /\ w.kind = "close"
    /\ alive' = {proc \in alive : proc.pid # w.pid}
    /\ page' = PagesAfterExit(page, {w.pid})
    /\ workers' = Continue(w, {})
    /\ UNCHANGED <<orchVars, opCount, limit, lastAudio, soloReq, cdp, pureVars>>

\* _initial_mute after its sleep: one turn of `for q, port in
\* self.active_ports.items()` with its cdp_evaluate, or the end of the loop.
\* The dictionary is read when the turn is taken; Python ends the thread with
\* RuntimeError when its size changed since the loop began.
InitialMute(w) ==
    /\ w.kind = "initmute"
    /\ LET size == Cardinality(DOMAIN active_ports)
           left == InOrder(QUAD_ORDER, (DOMAIN active_ports) \ w.done)
       IN  IF w.pc = 1 /\ size # w.n THEN
               /\ workers' = Continue(w, {})
               /\ UNCHANGED <<orchVars, envVars, lastAudio>>
           ELSE IF left = <<>> THEN
               /\ audio_quad' = UL
               /\ workers' = Continue(w, {})
               /\ UNCHANGED <<assignments, processes, active_ports, active_pids,
                              quad_rects, quad_maximized, envVars, lastAudio>>
           ELSE
               LET q == Head(left)
                   js == IF q = UL THEN "unmute" ELSE "mute"
                   port == active_ports[q]
               IN  /\ page' = IF Has(page, port)
                              THEN [page EXCEPT ![port].muted = (js = "mute")]
                              ELSE page
                   /\ lastAudio' = Put(lastAudio, q, js)
                   /\ workers' = Continue(w, {[w EXCEPT !.pc = 1, !.n = size,
                                                        !.done = @ \cup {q}]})
                   /\ UNCHANGED <<orchVars, alive>>
    /\ UNCHANGED <<opCount, limit, soloReq, cdp, pureVars>>

WorkerStep(w) ==
    \/ InjectSend(w)
    \/ InjectMute(w)
    \/ SwitchNavigate(w)
    \/ AudioSwitch(w)
    \/ DoResize(w)
    \/ DoClose(w)
    \/ InitialMute(w)

(***************************************************************************)
(* The orchestrator with its workers.                                      *)
(***************************************************************************)
\* the assignments _restore_assignments may load at start
SavedAssignments ==
    { [q \in QuadNames |-> None],
      [q \in QuadNames |-> IF q \in {UL, UR} THEN "url" ELSE None],
      [q \in QuadNames |-> IF q = UL THEN "nourl" ELSE IF q = LR THEN "url" ELSE None] }

\* QuadViewerApp.__init__
Start ==
    /\ assignments \in SavedAssignments
    /\ processes = {}
    /\ active_ports = EmptyDict
    /\ active_pids = EmptyDict
    /\ audio_quad = UL
    /\ quad_rects = EmptyDict
    /\ quad_maximized = EmptyDict
    /\ alive = {}
    /\ page = EmptyDict
    /\ workers = EmptyBag
    /\ opCount = 0
    /\ lastAudio = EmptyDict
    /\ soloReq = None
    /\ cdp = "idle"
    /\ layout = "idle"
    /\ frame = "idle"
    /\ thread = "idle"

Init == Start /\ limit = [ops |-> MaxOps, workers |-> MaxWorkers]

Operation ==
    \/ \E q \in QuadNames : _switch_quadrant(q)
    \/ \E q \in QuadNames : _close_quadrant(q)
    \/ \E q \in QuadNames : _open_quadrant(q)
    \/ \E q \in QuadNames : _toggle_maximize(q)
    \/ \E q \in QuadNames : _set_audio_solo(q)
    \/ \E q \in QuadNames : _bring_quad_to_front(q)
    \/ _mute_all
    \/ _close_all
    \/ _execute

Next ==
    \/ Operation
    \/ \E w \in WorkerSet : WorkerStep(w)

Spec == Init /\ [][Next]_vars

(***************************************************************************)
(* The same program used unhurriedly: an operation is invoked only when    *)
(* the threads of the earlier ones have ended.  Every behaviour of SpecSeq *)
(* is, up to the operation budget, a behaviour of Spec; it follows longer  *)
(* sequences of operations.                                                *)
(***************************************************************************)
InitSeq == Start /\ limit = [ops |-> MaxSeqOps, workers |-> MaxSeqWorkers]

Quiescent == workers = EmptyBag

NextSeq ==
    \/ Quiescent /\ Operation
    \/ \E w \in WorkerSet : WorkerStep(w)

SpecSeq == InitSeq /\ [][NextSeq]_vars

(***************************************************************************)
(* One command call of the protocol client: cdp_send(port, method, params, *)
(* retries, delay) or cdp_set_window_bounds(port, ..., retries, delay),    *)
(* against an endpoint that may answer each step of an attempt in any way. *)
(*                                                                         *)
(* cdp is the call: fn, method, retries, delay as called; attempt, the     *)
(* index of the for loop; pc, the step of the attempt (list: GET           *)
(* /json/list, connect, handshake, send1 / recv1: Browser.getWindowFor-    *)
(* Target and its response, send2 / recv2: the command and its response,   *)
(* done: returned, hung: inside a read loop that cannot end); result, the  *)
(* value returned; open, the sockets opened and not closed; sent, the      *)
(* methods of the frames sent; slept, the delays slept; responded, whether *)
(* some attempt received the response to its command; windowId, the id the *)
(* first step of cdp_set_window_bounds yielded; upgraded, whether the      *)
(* status line of this attempt's handshake response said 101; carried,     *)
(* the windowId in the Browser.setWindowBounds frame sent; finalizes,      *)
(* whether the interpreter closes a socket as soon as nothing refers to it *)
(* (reference counting) or leaves it to a later collection: the language   *)
(* allows both.                                                            *)
(***************************************************************************)
CdpCall(fn, method, retries, delay) ==
    [fn |-> fn, method |-> method, retries |-> retries, delay |-> delay,
     attempt |-> 0, pc |-> IF retries > 0 THEN "list" ELSE "done",
     result |-> IF retries > 0 THEN "none" ELSE "False",
     open |-> 0, sent |-> <<>>, slept |-> <<>>, responded |-> FALSE,
     windowId |-> 0, upgraded |-> FALSE, carried |-> 0, finalizes |-> FALSE]

\* time.sleep(delay), then the next turn of `for attempt in range(retries)`,
\* or `return False` after the last one (the return drops the last reference
\* to a socket the attempt left open)
SleepAndRetry(c) ==
    LET a == c.attempt + 1
    IN  [c EXCEPT !.attempt = a, !.slept = Append(@, c.delay), !.windowId = 0,
                  !.upgraded = FALSE,
                  !.open = IF c.finalizes /\ a >= c.retries THEN 0 ELSE @,
                  !.pc = IF a < c.retries THEN "list" ELSE "done",
                  !.result = IF a < c.retries THEN "none" ELSE "False"]

\* sock.close() before time.sleep(delay); continue
CloseSleepAndRetry(c) == SleepAndRetry([c EXCEPT !.open = @ - 1])

\* an exception inside the try block: `except Exception: time.sleep(delay)`
Except(c) == SleepAndRetry(c)

\* sock.close(); return True
CloseAndReturnTrue(c) == [c EXCEPT !.open = @ - 1, !.pc = "done", !.result = "True"]

\* what _ws_recv returns to its caller for what the peer does: a frame's
\* text, or None on a timeout or socket error (`except Exception: return None`)
WsRecvResult(peer) == IF peer \in {"timeout", "error"} THEN "None" ELSE peer

\* a step of the call touches nothing of the orchestrator
OnlyCdp == UNCHANGED <<orchVars, envVars, workers, ghostVars, pureVars>>

\* GET /json/list and the choice of the page target
CdpList ==
    /\ cdp.pc = "list"
    /\ OnlyCdp
    /\ \E targets \in {"unreachable", "nopage", "nourl", "page"} :
           cdp' = CASE targets = "unreachable" -> Except(cdp)
                    [] targets = "nopage" -> SleepAndRetry(cdp)
                    [] targets = "nourl" -> SleepAndRetry(cdp)
                    [] OTHER -> [cdp EXCEPT !.pc = "connect"]

\* sock = socket.create_connection(...): the assignment drops the last
\* reference to a socket an earlier attempt left open
CdpConnect ==
    /\ cdp.pc = "connect"
    /\ OnlyCdp
    /\ \E peer \in {"refused", "accepted"} :
           cdp' = IF peer = "refused" THEN Except(cdp)
                  ELSE [cdp EXCEPT !.open = IF cdp.finalizes THEN 1 ELSE @ + 1,
                                   !.pc = "handshake"]

\* handshake responses, as the words of their header block: the status line
\* first, then a header
HandshakeResponses ==
    { <<"HTTP/1.1", "101", "Switching Protocols", "Upgrade:", "websocket">>,
      <<"HTTP/1.1", "400", "Bad Request", "Content-Length:", "0">>,
      <<"HTTP/1.1", "404", "Not Found", "Content-Length:", "101">> }

\* b"101" in buf
Contains101(buf) == \E i \in 1..Len(buf) : buf[i] = "101"

\* the status of the status line
StatusOf(buf) == buf[2]

\* the upgrade request and the read of the response headers: a complete
\* header block, a read timeout, or a peer that has closed the connection
\* (recv returns b"" and the loop does not end)
CdpHandshake ==
    /\ cdp.pc = "handshake"
    /\ OnlyCdp
    /\ \/ \E buf \in HandshakeResponses :
              cdp' = IF Contains101(buf)
                     THEN [cdp EXCEPT !.pc = IF cdp.fn = "bounds" THEN "send1" ELSE "send2",
                                      !.upgraded = (StatusOf(buf) = "101")]
                     ELSE CloseSleepAndRetry(cdp)
       \/ \E peer \in {"timeout", "eof"} :
              cdp' = IF peer = "timeout" THEN Except(cdp) ELSE [cdp EXCEPT !.pc = "hung"]

\* cdp_set_window_bounds: _ws_send_text of Browser.getWindowForTarget
CdpSendWindow ==
    /\ cdp.pc = "send1"
    /\ OnlyCdp
    /\ \E peer \in {"error", "sent"} :
           cdp' = IF peer = "error" THEN Except(cdp)
                  ELSE [cdp EXCEPT !.sent = Append(@, "Browser.getWindowForTarget"),
                                   !.pc = "recv1"]

\* the window ids an endpoint answers Browser.getWindowForTarget with
WindowIds == {1, 2}

\* cdp_set_window_bounds: the response to Browser.getWindowForTarget
CdpRecvWindow ==
    /\ cdp.pc = "recv1"
    /\ OnlyCdp
    /\ \E peer \in {"windowId", "nowindow", "garbage", "timeout", "error", "eof"},
          window_id \in WindowIds :
           cdp' = CASE peer = "eof" -> [cdp EXCEPT !.pc = "hung"]
                    [] WsRecvResult(peer) = "None" -> CloseSleepAndRetry(cdp)
                    [] peer = "garbage" -> Except(cdp)
                    [] peer = "nowindow" -> CloseSleepAndRetry(cdp)
                    [] OTHER -> [cdp EXCEPT !.windowId = window_id, !.pc = "send2"]

\* _ws_send_text of the command (of Browser.setWindowBounds)
CdpSendCommand ==
    /\ cdp.pc = "send2"
    /\ OnlyCdp
    /\ \E peer \in {"error", "sent"} :
           cdp' = IF peer = "error" THEN Except(cdp)
                  ELSE [cdp EXCEPT !.sent = Append(@, cdp.method), !.pc = "recv2",
                                   !.carried = cdp.windowId]

\* what the call does with the result of _ws_recv for its command
AfterResponse(c, text) == CloseAndReturnTrue(c)

\* _ws_recv of the response to the command
CdpRecvResponse ==
    /\ cdp.pc = "recv2"
    /\ OnlyCdp
    /\ \E peer \in {"frame", "timeout", "error", "eof"} :
           cdp' = IF peer = "eof" THEN [cdp EXCEPT !.pc = "hung"]
                  ELSE [AfterResponse(cdp, WsRecvResult(peer))
                            EXCEPT !.responded = @ \/ peer = "frame"]

\* the calls SpecCdp starts from
CdpCalls ==
    {[c EXCEPT !.finalizes = g] : g \in BOOLEAN, c \in
        {CdpCall("send", m, r, d) :
             m \in {"Runtime.evaluate", "Page.navigate"}, r \in 0..MaxRetries, d \in {1, 2}}
        \cup {CdpCall("bounds", "Browser.setWindowBounds", r, 1) : r \in 0..MaxRetries}}

InitCdp ==
    /\ assignments = [q \in QuadNames |-> None]
    /\ processes = {}
    /\ active_ports = EmptyDict
    /\ active_pids = EmptyDict
    /\ audio_quad = UL
    /\ quad_rects = EmptyDict
    /\ quad_maximized = EmptyDict
    /\ alive = {}
    /\ page = EmptyDict
    /\ workers = EmptyBag
    /\ opCount = 0
    /\ limit = [ops |-> 0, workers |-> 0]
    /\ lastAudio = EmptyDict
    /\ soloReq = None
    /\ cdp \in CdpCalls
    /\ layout = "idle"
    /\ frame = "idle"
    /\ thread = "idle"

NextCdp ==
    \/ CdpList
    \/ CdpConnect
    \/ CdpHandshake
    \/ CdpSendWindow
    \/ CdpRecvWindow
    \/ CdpSendCommand
    \/ CdpRecvResponse

SpecCdp == InitCdp /\ [][NextCdp]_vars

(***************************************************************************)
(* Claims.                                                                 *)
(***************************************************************************)
Live == DOMAIN active_ports

Maximized == {q \in DOMAIN quad_maximized : quad_maximized[q]}

\* every live session other than the solo one was last told to mute
OthersToldToMute == \A q \in Live : q # audio_quad => lastAudio[q] = "mute"

\* C1: after every operation (executeAll, open, close, closeAll, switch,
\* setSolo, muteAll, toggleMaximize) the audio state names zero or one region
\* and the last audio command issued to every other live session (its launch
\* flag included) is a mute.
C1_SoloOthersMuted ==
    [][Operation => (audio_quad \in QuadNames \cup {None} /\ OthersToldToMute)']_vars

\* the page of live quadrant q is served by q's own session
OwnPage(q) == Has(page, active_ports[q]) /\ page[active_ports[q]].pid = active_pids[q]

\* C2: after setSolo(R) with no later operation, once every worker thread has
\* ended (each command having reached its page), R's page is unmuted and the
\* page of every other live region is muted.
C2_SoloConverges ==
    (soloReq # None /\ workers = EmptyBag) =>
        \A q \in Live : OwnPage(q) => (page[active_ports[q]].muted <=> q # soloReq)

\* C3: at most one region is marked maximized.
C3_AtMostOneMaximized == Cardinality(Maximized) <= 1

\* a region is maximized, and another live region has just been restored:
\* its resize back to its stored rect and the maximizing resize are in flight
C3_Witness ==
    \E a \in Live, b \in Live :
        /\ a # b /\ b \in Maximized
        /\ Has(quad_maximized, a) /\ ~quad_maximized[a]
        /\ ResizeWorker(active_ports[a], active_pids[a], quad_rects[a]) \in WorkerSet
        /\ ResizeWorker(active_ports[b], active_pids[b], MaximizedRect) \in WorkerSet

\* a thread resizing quadrant a to its stored rect
RestoreIssued(ws, a) ==
    \E w \in BagToSet(ws) : w.kind = "resize" /\ w.port = PortOf(a) /\ Has(quad_rects, a)
                            /\ w.rect = quad_rects[a]

\* C4: when a step marks region B maximized while another region A is marked
\* maximized, that step marks A not maximized and issues a resize of A to its
\* saved rect.
C4_RestoredBeforeMaximize ==
    [][\A a \in QuadNames, b \in QuadNames :
          (a # b /\ a \in Maximized /\ b \notin Maximized /\ GetFlag(quad_maximized', b))
              => (~GetFlag(quad_maximized', a) /\ RestoreIssued(workers', a))]_vars

\* C5: every region marked maximized has a saved rect.
C5_MaximizedHasSavedRect == \A q \in Maximized : Has(quad_rects, q)

\* a maximized region whose window has taken the full work area while its
\* stored rect is still the layout one
C5_Witness ==
    \E q \in Maximized \cap Live :
        /\ OwnPage(q) /\ page[active_ports[q]].rect = MaximizedRect
        /\ quad_rects[q] # MaximizedRect

\* C6: at most one browser process of a region is alive at any time.
C6_OneProcessPerRegion ==
    \A q \in QuadNames : Cardinality({proc \in alive : proc.quad = q}) <= 1

\* C7: a call that has returned without any attempt having received its
\* response made exactly `retries` attempts, slept the configured delay after
\* each, and returned False.
C7_RetryExhaustion ==
    (cdp.pc = "done" /\ ~cdp.responded) =>
        /\ cdp.attempt = cdp.retries
        /\ cdp.slept = [i \in 1..cdp.retries |-> cdp.delay]
        /\ cdp.result = "False"

\* C8: a call returns True only if some attempt received the response to its
\* command: an attempt that ended unreachable, without page, with a handshake
\* mismatch or with a timeout on the response frame is not a success.
C8_FailureKindsRetry == (cdp.pc = "done" /\ cdp.result = "True") => cdp.responded

\* C9: a step of a worker thread leaves the orchestrator's tables and the
\* solo reference as they are.
C9_WorkersNeverMutate ==
    [][(\E w \in WorkerSet : WorkerStep(w)) => UNCHANGED orchVars]_vars

\* thread w was started for a session that has since been closed, and its
\* port is now served by a live session
Stale(w) ==
    /\ w.kind \in {"inject", "switch", "audio", "resize"}
    /\ w.pid \notin {proc.pid : proc \in processes}
    /\ \E q \in Live : active_ports[q] = w.port /\ OwnPage(q)

\* C10: a command of a thread started for a closed session changes no page of
\* a live session.
C10_StaleWorkersHarmless ==
    [][\A w \in WorkerSet : (Stale(w) /\ WorkerStep(w)) => page' = page]_vars

\* the port table holds basePort + offset for every live region, and no two
\* live regions hold the same port
PortsFixed ==
    /\ \A q \in Live : active_ports[q] = CDP_BASE_PORT + CDP_PORT_OFFSETS[q]
    /\ \A a \in Live, b \in Live : a # b => active_ports[a] # active_ports[b]

\* a region that keeps its session over a step keeps its port
PortStable ==
    \A q \in Live :
        (Has(active_ports', q) /\ Has(active_pids', q) /\ active_pids'[q] = active_pids[q])
            => active_ports'[q] = active_ports[q]

\* C11: in every reachable state the port table maps each live region to
\* basePort + offset(region), distinct regions never share a port, and the
\* port of a session does not change while the session lasts.
C11_PortTable == []PortsFixed /\ [][PortStable]_vars

\* two regions are live, each served on its own port by its own process
C11_Witness ==
    \E a \in Live, b \in Live :
        a # b /\ OwnPage(a) /\ OwnPage(b) /\ active_ports[a] < active_ports[b]

(***************************************************************************)
(* One call of the layout engine: get_smart_rects(active_quads, work_x,    *)
(* work_y, work_w, work_h) for a list of one to four distinct quadrants    *)
(* and a work area.  layout is the call: names and work as passed, pc      *)
(* ("call", "done"), rects the dictionary returned.                        *)
(***************************************************************************)
\* the orchestrator and the command call take no part
Unused ==
    /\ assignments = [q \in QuadNames |-> None]
    /\ processes = {}
    /\ active_ports = EmptyDict
    /\ active_pids = EmptyDict
    /\ audio_quad = UL
    /\ quad_rects = EmptyDict
    /\ quad_maximized = EmptyDict
    /\ alive = {}
    /\ page = EmptyDict
    /\ workers = EmptyBag
    /\ opCount = 0
    /\ limit = [ops |-> 0, workers |-> 0]
    /\ lastAudio = EmptyDict
    /\ soloReq = None
    /\ cdp = "idle"

\* the lists of distinct quadrant names, in every order
ActiveLists ==
    UNION { {s \in [1..n -> QuadNames] : \A i \in 1..n, j \in 1..n : i # j => s[i] # s[j]} :
              n \in 1..Cardinality(QuadNames) }

\* work areas (x, y, w, h): with and without an offset origin, with even and
\* odd width and height
WorkAreas ==
    { <<x, y, w, h>> : x \in {0, 100}, y \in {0, 40},
                       w \in {1920, 1366, 1921}, h \in {1080, 1040, 1081} }

InitLayout ==
    /\ Unused
    /\ frame = "idle"
    /\ thread = "idle"
    /\ layout \in { [names |-> s, work |-> wa, pc |-> "call", rects |-> EmptyDict] :
                       s \in ActiveLists, wa \in WorkAreas }

SmartRects ==
    /\ layout.pc = "call"
    /\ layout' = [layout EXCEPT
                      !.rects = get_smart_rects(layout.names, layout.work[1], layout.work[2],
                                                layout.work[3], layout.work[4]),
                      !.pc = "done"]
    /\ UNCHANGED <<orchVars, envVars, workers, ghostVars, cdp, frame, thread>>

NextLayout == SmartRects

SpecLayout == InitLayout /\ [][NextLayout]_vars

(***************************************************************************)
(* Claims about the layout engine.                                         *)
(***************************************************************************)
Right(r) == r[1] + r[3]

Bottom(r) == r[2] + r[4]

\* the rectangle before border expansion
Tile(r) == << r[1] + WIN_BORDER, r[2] + WIN_BORDER,
              r[3] - 2 * WIN_BORDER, r[4] - 2 * WIN_BORDER >>

Inside(t, area) ==
    /\ t[1] >= area[1] /\ t[2] >= area[2]
    /\ Right(t) <= Right(area) /\ Bottom(t) <= Bottom(area)

Disjoint(a, b) ==
    \/ Right(a) <= b[1] \/ Right(b) <= a[1]
    \/ Bottom(a) <= b[2] \/ Bottom(b) <= a[2]

RECURSIVE TileAreaSum(_, _)
TileAreaSum(names, rects) ==
    IF names = <<>> THEN 0
    ELSE Tile(rects[Head(names)])[3] * Tile(rects[Head(names)])[4]
             + TileAreaSum(Tail(names), rects)

Returned == layout.pc = "done"

\* C12: the rectangles returned for 1 to 4 active regions, taken before
\* border expansion, lie inside the work area, do not overlap one another
\* and cover all of it.
C12_TilesWorkArea ==
    Returned =>
        /\ \A q \in DOMAIN layout.rects : Inside(Tile(layout.rects[q]), layout.work)
        /\ \A a \in DOMAIN layout.rects, b \in DOMAIN layout.rects :
               a # b => Disjoint(Tile(layout.rects[a]), Tile(layout.rects[b]))
        /\ TileAreaSum(layout.names, layout.rects) = layout.work[3] * layout.work[4]

SameRow(names) == Len(names) = 2 /\ QUADRANTS[names[1]][2] = QUADRANTS[names[2]][2]

SameCol(names) == Len(names) = 2 /\ QUADRANTS[names[1]][1] = QUADRANTS[names[2]][1]

\* C13: two regions of one grid row get rectangles of equal height whose
\* widths before border expansion sum to the work-area width; two regions of
\* one grid column get equal widths and heights that sum to the work-area
\* height.
C13_PairSharesAxis ==
    Returned =>
        LET a == layout.rects[layout.names[1]]
            b == layout.rects[layout.names[2]]
        IN  /\ SameRow(layout.names) =>
                   (a[4] = b[4] /\ Tile(a)[3] + Tile(b)[3] = layout.work[3])
            /\ SameCol(layout.names) =>
                   (a[3] = b[3] /\ Tile(a)[4] + Tile(b)[4] = layout.work[4])

Diagonal(names) ==
    /\ Len(names) = 2
    /\ QUADRANTS[names[1]][1] # QUADRANTS[names[2]][1]
    /\ QUADRANTS[names[1]][2] # QUADRANTS[names[2]][2]

\* C14: a diagonal pair is placed side by side at full height, the region of
\* the lower column on the left, and the other iteration order of the input
\* gives the same rectangles.
C14_DiagonalByColumn ==
    (Returned /\ Diagonal(layout.names)) =>
        LET lo == IF QUADRANTS[layout.names[1]][1] < QUADRANTS[layout.names[2]][1]
                  THEN layout.names[1] ELSE layout.names[2]
            hi == IF lo = layout.names[1] THEN layout.names[2] ELSE layout.names[1]
            wa == layout.work
        IN  /\ Tile(layout.rects[lo])[1] = wa[1]
            /\ Right(Tile(layout.rects[lo])) = Tile(layout.rects[hi])[1]
            /\ \A q \in {lo, hi} : /\ Tile(layout.rects[q])[2] = wa[2]
                                    /\ Tile(layout.rects[q])[4] = wa[4]
                                    /\ layout.rects[q][3] = layout.rects[lo][3]
            /\ layout.rects = get_smart_rects(<<layout.names[2], layout.names[1]>>,
                                               wa[1], wa[2], wa[3], wa[4])

\* a diagonal pair given with the region of the higher column first
C14_Witness ==
    /\ Returned /\ Diagonal(layout.names)
    /\ QUADRANTS[layout.names[1]][1] > QUADRANTS[layout.names[2]][1]
    /\ layout.rects[layout.names[2]][1] < layout.rects[layout.names[1]][1]

(***************************************************************************)
(* Claims about executeAll on a 1920x1080 work area.                       *)
(***************************************************************************)
Assigned == {q \in QuadNames : assignments[q] # None}

\* the rects of the same-row pair Upper Left / Upper Right, of width w
SameRowRects(w) == (UL :> <<-8, -8, w, 1096>>) @@ (UR :> <<952, -8, w, 1096>>)

\* after a step: both regions have a session, stored and launched with rects
ExecutedWith(rects) ==
    /\ quad_rects' = rects
    /\ \A q \in {UL, UR} :
           /\ Has(active_ports', q) /\ Has(active_pids', q)
           /\ Proc(active_pids'[q], q) \in alive'
           /\ (Has(page', PortOf(q)) /\ page'[PortOf(q)].pid = active_pids'[q])
                  => page'[PortOf(q)].rect = rects[q]

Min(a, b) == IF a < b THEN a ELSE b

Max(a, b) == IF a > b THEN a ELSE b

\* the extent two rectangles share along x, along y
XOverlap(a, b) == Min(Right(a), Right(b)) - Max(a[1], b[1])

YOverlap(a, b) == Min(Bottom(a), Bottom(b)) - Max(a[2], b[2])

\* a is the left neighbour of b, the upper neighbour of b: they share more
\* than a corner
SideBySide(a, b) == a[1] < b[1] /\ YOverlap(a, b) > 2 * WIN_BORDER

Stacked(a, b) == a[2] < b[2] /\ XOverlap(a, b) > 2 * WIN_BORDER

\* every pair of neighbouring returned rectangles overlaps by k across the
\* edge they share
NeighboursOverlapBy(k) ==
    \A a \in DOMAIN layout.rects, b \in DOMAIN layout.rects :
        /\ SideBySide(layout.rects[a], layout.rects[b])
               => XOverlap(layout.rects[a], layout.rects[b]) = k
        /\ Stacked(layout.rects[a], layout.rects[b])
               => YOverlap(layout.rects[a], layout.rects[b]) = k

\* the lines of the grid: the edges and the midlines of the work area
GridX == {layout.work[1], layout.work[1] + layout.work[3] \div 2,
          layout.work[1] + 2 * (layout.work[3] \div 2), layout.work[1] + layout.work[3]}

GridY == {layout.work[2], layout.work[2] + layout.work[4] \div 2,
          layout.work[2] + 2 * (layout.work[4] \div 2), layout.work[2] + layout.work[4]}

\* every returned rectangle is a cell of the grid grown by the margin on all
\* four sides
ExpandedOnAllSides ==
    \A q \in DOMAIN layout.rects :
        LET r == layout.rects[q]
        IN  /\ r[1] + WIN_BORDER \in GridX /\ Right(r) - WIN_BORDER \in GridX
            /\ r[2] + WIN_BORDER \in GridY /\ Bottom(r) - WIN_BORDER \in GridY
            /\ r[3] > 2 * WIN_BORDER /\ r[4] > 2 * WIN_BORDER

RECURSIVE XorBits(_, _, _)
\* a ^ b on the low n bits
XorBits(a, b, n) ==
    IF n = 0 THEN 0
    ELSE (((a % 2) + (b % 2)) % 2) + 2 * XorBits(a \div 2, b \div 2, n - 1)

RECURSIVE Pack(_, _)
\* struct.pack(">H", n) with width 2, struct.pack(">Q", n) with width 8
Pack(n, width) ==
    IF width = 0 THEN <<>> ELSE Pack(n \div 256, width - 1) \o <<n % 256>>

RECURSIVE Unpack(_)
\* struct.unpack(">H", raw)[0], struct.unpack(">Q", raw)[0]
Unpack(raw) ==
    IF raw = <<>> THEN 0
    ELSE 256 * Unpack(SubSeq(raw, 1, Len(raw) - 1)) + raw[Len(raw)]

IsAscii(s) == \A i \in 1..Len(s) : s[i] < 128

RECURSIVE Utf8EncodeEach(_)
Utf8EncodeEach(text) ==
    IF text = <<>> THEN <<>>
    ELSE (IF Head(text) < 128 THEN <<Head(text)>>
          ELSE <<192 + (Head(text) \div 64), 128 + (Head(text) % 64)>>)
         \o Utf8EncodeEach(Tail(text))

\* text.encode("utf-8"): a code point below 128 is one byte, below 2048 two
Utf8Encode(text) == IF IsAscii(text) THEN text ELSE Utf8EncodeEach(text)

RECURSIVE Utf8DecodeEach(_)
Utf8DecodeEach(data) ==
    IF data = <<>> THEN <<>>
    ELSE IF Head(data) < 128 THEN <<Head(data)>> \o Utf8DecodeEach(Tail(data))
    ELSE IF /\ Head(data) >= 194 /\ Head(data) < 224 /\ Len(data) >= 2
            /\ data[2] >= 128 /\ data[2] < 192
         THEN <<(Head(data) - 192) * 64 + (data[2] - 128)>>
                  \o Utf8DecodeEach(SubSeq(data, 3, Len(data)))
    ELSE <<65533>> \o Utf8DecodeEach(Tail(data))

\* data.decode("utf-8", errors="replace")
Utf8Decode(data) == IF IsAscii(data) THEN data ELSE Utf8DecodeEach(data)

\* mutant: the 16-bit length field starts one byte late
WsHeader_late(length) ==
    <<129>> \o (IF length <= 126 THEN <<128 + length>>
               ELSE IF length < 65536 THEN <<128 + 126>> \o Pack(length, 2)
               ELSE <<128 + 127>> \o Pack(length, 8))

\* the header of _ws_send_text: FIN + text opcode, MASK bit + length
WsHeader(length) ==
    <<129>> \o (IF length < 126 THEN <<128 + length>>
               ELSE IF length < 65536 THEN <<128 + 126>> \o Pack(length, 2)
               ELSE <<128 + 127>> \o Pack(length, 8))

\* masked[i] ^= mask_key[i % 4]
Masked(payload, mask_key) ==
    [i \in 1..Len(payload) |-> XorBits(payload[i], mask_key[((i - 1) % 4) + 1], 8)]

\* the bytes _ws_send_text passes to sock.sendall
WsFrame(text, mask_key) ==
    LET payload == Utf8Encode(text)
    IN  WsHeader(Len(payload)) \o mask_key \o Masked(payload, mask_key)

\* the length field of a frame and the number of extended-length bytes
LengthField(stream) == stream[2] % 128

ExtendedBytes(stream) ==
    IF LengthField(stream) = 126 THEN 2 ELSE IF LengthField(stream) = 127 THEN 8 ELSE 0

\* the payload length a frame announces
AnnouncedLength(stream) ==
    IF ExtendedBytes(stream) = 0 THEN LengthField(stream)
    ELSE Unpack(SubSeq(stream, 3, 2 + ExtendedBytes(stream)))

\* the peer: the client frame without its mask (MASK bit cleared, key
\* removed, payload unmasked), as a server sends frames
StripMask(stream) ==
    LET ext == ExtendedBytes(stream)
        key == SubSeq(stream, 3 + ext, 6 + ext)
        body == SubSeq(stream, 7 + ext, Len(stream))
    IN  <<stream[1], LengthField(stream)>> \o SubSeq(stream, 3, 2 + ext)
            \o Masked(body, key)

\* _ws_recv: 2 header bytes, the extended length, then that many bytes,
\* decoded; None when the bytes do not arrive
WsRecv(stream) ==
    IF Len(stream) < 2 THEN "None"
    ELSE IF Len(stream) < 2 + ExtendedBytes(stream) THEN "None"
    ELSE LET length == AnnouncedLength(stream)
             start == 3 + ExtendedBytes(stream)
         IN  IF Len(stream) < start - 1 + length THEN "None"
             ELSE Utf8Decode(SubSeq(stream, start, start - 1 + length))

\* a text of n printable ASCII characters
Pattern(n) == [i \in 1..n |-> 32 + (i % 95)]

\* the texts sent: the short ones over 'A', '"' and U+00E9, and texts whose
\* encodings lie on both sides of the length threshold 126 ...
Texts ==
    UNION { [1..n -> {65, 34, 233}] : n \in 0..2 }
    \cup { Pattern(n) : n \in {125, 126, 127} }
    \cup { Pattern(20) \o <<233>> }

\* ... and of the length threshold 65536
LongTexts == { Pattern(n) : n \in {65535, 65536} }

MaskKeys == { <<0, 0, 0, 0>>, <<1, 2, 3, 4>>, <<255, 170, 85, 15>> }

FrameRun(t, k) == [text |-> t, mask_key |-> k, pc |-> "send", wire |-> <<>>, result |-> "None"]

InitFrame ==
    /\ Unused
    /\ layout = "idle"
    /\ thread = "idle"
    /\ frame \in { FrameRun(t, k) : t \in Texts, k \in MaskKeys }
                     \cup { FrameRun(t, <<255, 170, 85, 15>>) : t \in LongTexts }

OnlyFrame == UNCHANGED <<orchVars, envVars, workers, ghostVars, cdp, layout, thread>>

\* _ws_send_text(sock, text)
WsSendText ==
    /\ frame.pc = "send"
    /\ frame' = [frame EXCEPT !.wire = WsFrame(frame.text, frame.mask_key), !.pc = "sent"]
    /\ OnlyFrame

\* the peer sends the frame back without its mask
PeerEcho ==
    /\ frame.pc = "sent"
    /\ frame' = [frame EXCEPT !.wire = StripMask(frame.wire), !.pc = "echoed"]
    /\ OnlyFrame

\* _ws_recv(sock)
WsRecvFrame ==
    /\ frame.pc = "echoed"
    /\ frame' = [frame EXCEPT !.result = WsRecv(frame.wire), !.pc = "done"]
    /\ OnlyFrame

NextFrame ==
    \/ WsSendText
    \/ PeerEcho
    \/ WsRecvFrame

SpecFrame == InitFrame /\ [][NextFrame]_vars

\* C17: a text sent by _ws_send_text, with the mask stripped by the peer,
\* is read back by _ws_recv with exactly the original bytes, for payloads of
\* 125, 126, 65535 and 65536 bytes among others.
C17_FrameRoundTrip ==
    frame.pc = "done" =>
        /\ frame.result # "None"
        /\ frame.result = frame.text
        /\ Utf8Encode(frame.result) = Utf8Encode(frame.text)

\* a payload of 65536 bytes, sent under a mask that changes every byte and
\* announced in the 64-bit length field, came back
C17_Witness ==
    /\ frame.pc = "done"
    /\ Len(Utf8Encode(frame.text)) = 65536
    /\ frame.mask_key = <<255, 170, 85, 15>>
    /\ ExtendedBytes(frame.wire) = 8
    /\ frame.result = frame.text

(***************************************************************************)
(* Claims about the stored rectangles.                                     *)
(***************************************************************************)
\* the stored rect of every region outside S is what it was
RectsKeptExcept(S) ==
    \A r \in QuadNames \ S :
        /\ Has(quad_rects', r) <=> Has(quad_rects, r)
        /\ Has(quad_rects, r) => quad_rects'[r] = quad_rects[r]

\* every resize thread started by the step carries the stored rect of its
\* region or the full work area
ResizesReuseStored ==
    \A w \in BagToSet(workers') \ WorkerSet :
        w.kind = "resize" =>
            \/ w.rect = MaximizedRect
            \/ \E q \in DOMAIN quad_rects : w.port = PortOf(q) /\ w.rect = quad_rects[q]

C19_CallTerminates ==
    /\ cdp.pc = "done" \/ ENABLED NextCdp
    /\ cdp.attempt <= cdp.retries

\* C20: an attempt is at the sending or the awaiting of a command frame only
\* if the status line of its handshake response said 101.
C20_CommandOnlyAfter101 ==
    cdp.pc \in {"send1", "recv1", "send2", "recv2"} => cdp.upgraded


SendsSetBounds ==
    /\ cdp.fn = "bounds"
    /\ Len(cdp'.sent) = Len(cdp.sent) + 1
    /\ cdp'.sent[Len(cdp'.sent)] = "Browser.setWindowBounds"

\* C22: a step sends Browser.setWindowBounds only when the frame sent before
\* it, in the same attempt, was Browser.getWindowForTarget and its response
\* yielded a window id, and the frame carries that id; and a first step that
\* ends without a window id fails the attempt and sends nothing.
C22_TwoStepExchange ==
    [][/\ SendsSetBounds =>
             /\ cdp.windowId \in WindowIds
             /\ cdp'.carried = cdp.windowId
             /\ cdp'.attempt = cdp.attempt
             /\ cdp.sent # <<>> /\ cdp.sent[Len(cdp.sent)] = "Browser.getWindowForTarget"
       /\ (cdp.pc = "recv1" /\ cdp'.windowId \notin WindowIds) =>
             /\ cdp'.attempt = cdp.attempt + 1
             /\ cdp'.sent = cdp.sent]_vars


(***************************************************************************)
(* One worker thread running inject_js_thread(port, start_muted, url), or  *)
(* do_switch of _switch_quadrant, which calls cdp_navigate(port, url) and  *)
(* then inject_js_thread.  thread is the thread: entry, port, start_muted  *)
(* as started; pc ("navigate", "inject", "mute", "sleep", "done", and      *)
(* "hung": inside a command call that does not return); i, the turn of the *)
(* `for wait in (8, 12, 15, 20)` loop (0 before it); calls, the command    *)
(* calls made, each with its result; slept, the waits slept.               *)
(***************************************************************************)
\* what a command call comes to for its caller: it returns True or False, or
\* it does not return (a read loop that cannot end)
CallOutcomes == {"True", "False", "hung"}

Call(fn, port, arg, retries, delay, result) ==
    [fn |-> fn, port |-> port, arg |-> arg, retries |-> retries, delay |-> delay,
     result |-> result]

\* the thread after its command call: at pc with turn i when the call returned
CallReturned(t, call, pc, i) ==
    IF call.result = "hung"
    THEN [t EXCEPT !.calls = Append(@, call), !.pc = "hung"]
    ELSE [t EXCEPT !.calls = Append(@, call), !.pc = pc, !.i = i]

OnlyThread == UNCHANGED <<orchVars, envVars, workers, ghostVars, cdp, layout, frame>>

\* mutant: do_switch goes on to inject_js_thread only when cdp_navigate
\* returned True
AfterNavigate_onSuccess(result) == IF result = "True" THEN "inject" ELSE "done"

\* do_switch after cdp_navigate: inject_js_thread, whatever was returned
AfterNavigate(result) == "inject"

\* do_switch: cdp_navigate(port, url), retries=5, delay=2
ThreadNavigate ==
    /\ thread.pc = "navigate"
    /\ OnlyThread
    /\ \E result \in CallOutcomes :
           thread' = CallReturned(thread,
                              Call("cdp_navigate", thread.port, "url", 5, 2, result),
                              AfterNavigate(result), 0)

\* the last turn of `for wait in (8, 12, 15, 20)`
LastTurn == Len(INJECT_DELAYS)

\* the position after the commands of turn i: the next sleep, or the end
AfterTurn(i) == IF i < LastTurn THEN "sleep" ELSE "done"

\* cdp_evaluate(port, INJECTED_JS): retries=15, delay=2 the first time,
\* retries=3, delay=1 in the loop
ThreadInject ==
    /\ thread.pc = "inject"
    /\ OnlyThread
    /\ \E result \in CallOutcomes :
           thread' = CallReturned(thread,
                              Call("cdp_evaluate", thread.port, "INJECTED_JS",
                                   IF thread.i = 0 THEN 15 ELSE 3,
                                   IF thread.i = 0 THEN 2 ELSE 1, result),
                              IF thread.start_muted THEN "mute" ELSE AfterTurn(thread.i),
                              thread.i)

\* if start_muted: cdp_evaluate(port, mute_js): retries=2 the first time,
\* retries=1 in the loop, delay=1
ThreadMute ==
    /\ thread.pc = "mute"
    /\ OnlyThread
    /\ \E result \in CallOutcomes :
           thread' = CallReturned(thread,
                              Call("cdp_evaluate", thread.port, "mute_js",
                                   IF thread.i = 0 THEN 2 ELSE 1, 1, result),
                              AfterTurn(thread.i), thread.i)

\* time.sleep(wait) of the next turn
ThreadSleep ==
    /\ thread.pc = "sleep"
    /\ OnlyThread
    /\ thread' = [thread EXCEPT !.slept = Append(@, INJECT_DELAYS[thread.i + 1]),
                                !.i = @ + 1, !.pc = "inject"]

\* the threads SpecInject starts from
Threads ==
    { [entry |-> e, port |-> PortOf(q), start_muted |-> m,
       pc |-> IF e = "do_switch" THEN "navigate" ELSE "inject",
       i |-> 0, calls |-> <<>>, slept |-> <<>>] :
         e \in {"inject_js_thread", "do_switch"}, q \in {UL, LR}, m \in BOOLEAN }

InitInject ==
    /\ Unused
    /\ layout = "idle"
    /\ frame = "idle"
    /\ thread \in Threads

NextInject ==
    \/ ThreadNavigate
    \/ ThreadInject
    \/ ThreadMute
    \/ ThreadSleep

SpecInject == InitInject /\ [][NextInject]_vars

(***************************************************************************)
(* Claims about the injection schedule.                                    *)
(***************************************************************************)
\* the calls of the thread that send the automation script
Injections == SelectSeq(thread.calls, LAMBDA c : c.arg = "INJECTED_JS")

\* C23: the thread sends the script once at once and once after each delay
\* of the list, in list order, every call with a retry budget of its own, and
\* it ends after the last send whatever the calls returned: a thread that has
\* not ended can take a step, and one that has ended has made every send.
C23_ScheduleTerminates ==
    /\ thread.pc = "done" \/ ENABLED NextInject
    /\ thread.slept = SubSeq(INJECT_DELAYS, 1, Len(thread.slept))
    /\ Len(Injections) \in {Len(thread.slept), Len(thread.slept) + 1}
    /\ \A k \in 1..Len(thread.calls) : thread.calls[k].retries \in 1..15
    /\ thread.pc = "done" =>
           /\ thread.slept = INJECT_DELAYS
           /\ Len(Injections) = Len(INJECT_DELAYS) + 1


\* cdp_navigate has returned, True or exhausted
NavigateReturned ==
    thread.calls # <<>> /\ thread.calls[1].result \in {"True", "False"}

\* C24: the thread of a switch first calls navigate on its port; the script
\* is sent only after that call has returned; and once it has returned, True
\* or False, a fresh schedule starts: its first send is the next call.
C24_SwitchRearmsSchedule ==
    thread.entry = "do_switch" =>
        /\ thread.calls # <<>> =>
               /\ thread.calls[1].fn = "cdp_navigate"
               /\ thread.calls[1].port = thread.port
        /\ \A k \in 1..Len(thread.calls) :
               /\ thread.calls[k].port = thread.port
               /\ thread.calls[k].fn = "cdp_navigate" => k = 1
               /\ thread.calls[k].arg = "INJECTED_JS" => (k > 1 /\ NavigateReturned)
        /\ NavigateReturned =>
               \/ /\ Len(thread.calls) = 1
                  /\ thread.pc = "inject" /\ thread.i = 0 /\ thread.slept = <<>>
               \/ /\ Len(thread.calls) > 1
                  /\ thread.calls[2].arg = "INJECTED_JS"
                  /\ thread.calls[2].retries = 15

\* navigate exhausted its retries and the first send of the schedule was made
C24_Witness ==
    /\ thread.entry = "do_switch"
    /\ Len(thread.calls) > 1
    /\ thread.calls[1].fn = "cdp_navigate" /\ thread.calls[1].result = "False"
    /\ thread.calls[2].arg = "INJECTED_JS"


(***************************************************************************)
(* Claims about maximize and restore.                                      *)
(***************************************************************************)
\* the work area grown by the border margin on every side
ExpandedWorkArea ==
    << get_work_area[1] - WIN_BORDER, get_work_area[2] - WIN_BORDER,
       get_work_area[3] + WIN_BORDER + WIN_BORDER, get_work_area[4] + WIN_BORDER + WIN_BORDER >>

\* the step starts thread w
Started(w) == CopiesIn(w, workers') > CopiesIn(w, workers)

\* C25: toggleMaximize(R) on a live region R that is not maximized starts a
\* resize of R to the work area grown by the border margin, marks R
\* maximized, makes R the solo reference and issues unmute to R and mute to
\* every other live region; on a maximized R it leaves the solo reference
\* as it is.
C25_MaximizeResizesAndSolos ==
    [][\A q \in Live :
          _toggle_maximize(q) =>
              IF GetFlag(quad_maximized, q)
              THEN audio_quad' = audio_quad
              ELSE /\ Started(ResizeWorker(active_ports[q], active_pids[q], ExpandedWorkArea))
                   /\ GetFlag(quad_maximized', q)
                   /\ audio_quad' = q
                   /\ \A r \in Live :
                          /\ lastAudio'[r] = IF r = q THEN "unmute" ELSE "mute"
                          /\ Started(AudioWorker(active_ports[r], active_pids[r],
                                                 lastAudio'[r]))]_vars

\* a region has just been maximized next to another live one: its resize to
\* the grown work area and its unmute are under way, and so is the mute of
\* the other region
C25_Witness ==
    \E q \in Live, r \in Live :
        /\ q # r /\ q \in Maximized /\ audio_quad = q
        /\ ResizeWorker(active_ports[q], active_pids[q], ExpandedWorkArea) \in WorkerSet
        /\ AudioWorker(active_ports[q], active_pids[q], "unmute") \in WorkerSet
        /\ AudioWorker(active_ports[r], active_pids[r], "mute") \in WorkerSet


\* region q keeps its session over the step: it stays live and the step is
\* not an executeAll, which ends every session and starts new ones
KeepsSession(q) ==
    Has(active_pids, q) /\ Has(active_pids', q) /\ ~_execute

\* C26: the rect stored for a live region is left as it is by the step that
\* maximizes the region and by every step while the region is maximized and
\* keeps its session; and toggleMaximize of a maximized live region R, or of
\* another live region while R is maximized, starts a resize of R to that
\* stored rect and leaves R not maximized.
C26_RestoreReappliesSavedRect ==
    [][\A q \in Live :
          /\ (KeepsSession(q) /\ (q \in Maximized \/ GetFlag(quad_maximized', q))) =>
                 (Has(quad_rects', q) /\ quad_rects'[q] = quad_rects[q])
          /\ q \in Maximized =>
                 \A r \in Live :
                     _toggle_maximize(r) =>
                         /\ Started(ResizeWorker(active_ports[q], active_pids[q],
                                                 quad_rects[q]))
                         /\ Has(quad_maximized', q) /\ ~quad_maximized'[q]]_vars

\* a region whose window has taken the full work area has just been
\* restored: it is not maximized, and the resize to its stored rect, which
\* is not the full work area, is under way
C26_Witness ==
    \E q \in Live :
        /\ Has(quad_maximized, q) /\ ~quad_maximized[q]
        /\ OwnPage(q) /\ page[active_ports[q]].rect = ExpandedWorkArea
        /\ quad_rects[q] # ExpandedWorkArea
        /\ ResizeWorker(active_ports[q], active_pids[q], quad_rects[q]) \in WorkerSet


(***************************************************************************)
(* Claims about the tables of the orchestrator.                            *)
(***************************************************************************)
\* C27: the solo reference is none or a region of the debug-port table.
C27_SoloIsLive == audio_quad = None \/ audio_quad \in Live

\* C28: every region marked maximized is in the debug-port table.
C28_MaximizedIsLive == Maximized \subseteq Live

\* C29: executeAll launches, with its rect, every region the layout engine
\* was given: the regions with a session after it are the assigned ones.
C29_LayoutMatchesLaunch ==
    [][(ExecuteActive # {} /\ _execute) =>
          /\ DOMAIN active_ports' = ExecuteActive
          /\ DOMAIN quad_rects' = ExecuteActive]_vars


\* the step changes no table, starts no thread and issues no command
NoEffect ==
    /\ UNCHANGED <<audio_quad, active_ports, active_pids, quad_rects, quad_maximized>>
    /\ UNCHANGED <<workers, page, lastAudio>>

\* C30: setSolo, toggleMaximize and switch of a region without a live
\* session, and muteAll when no region is live, change no table, start no
\* thread and issue no command.
C30_DeadRegionNoOps ==
    [][/\ \A q \in QuadNames \ Live :
             (_set_audio_solo(q) \/ _toggle_maximize(q) \/ _switch_quadrant(q)) => NoEffect
       /\ (Live = {} /\ _mute_all) => NoEffect]_vars

\* operations have been invoked up to the last one the run follows, every
\* thread has ended, and next to a live region that holds the solo reference
\* there is an assigned region without a session
C30_Witness ==
    /\ opCount = limit.ops /\ workers = EmptyBag
    /\ audio_quad \in Live
    /\ \E q \in QuadNames \ Live : assignments[q] = "url"

====
